---- MODULE Spec2Model ----
(***************************************************************************)
(* The signal pipeline of app.py: the sidebar settings, the klines loaded  *)
(* from the exchange, the RSI/MACD columns, the daily and weekly           *)
(* classification, the weekly resample, the forward-fill of the weekly     *)
(* signal onto the loaded index, and the hybrid trade signal.              *)
(*                                                                         *)
(* Time is counted in minutes from a Monday 00:00 UTC.  A float column     *)
(* value is <<v>> when defined and <<>> when it is NaN, so that every      *)
(* comparison with NaN is false, as in pandas.  The RSI and MACD values    *)
(* come from the ta library, which is not part of the repository: they are *)
(* inputs, drawn per row from IndicatorRows.                               *)
(***************************************************************************)
EXTENDS Integers, Sequences, FiniteSets

VARIABLES pc, interval,
          buy_rsi_daily, sell_rsi_daily, buy_rsi_weekly, sell_rsi_weekly,
          df, df_ta, daily_sig,
          weekly, weekly_ta, weekly_signal,
          weekly_sig, trade_signal

vars == <<pc, interval,
          buy_rsi_daily, sell_rsi_daily, buy_rsi_weekly, sell_rsi_weekly,
          df, df_ta, daily_sig,
          weekly, weekly_ta, weekly_signal,
          weekly_sig, trade_signal>>

\* ---------------------------------------------------------------- bounds
\* The greatest number of candles the exchange returns in a modelled run.
MaxBars == 2

\* ------------------------------------------------------------ time, floats
Day  == 24 * 60
Week == 7 * Day

NaN == <<>>
F(v) == <<v>>
IsNaN(x) == x = NaN

\* pandas comparisons: False as soon as one side is NaN.
Lt(a, b) == (~IsNaN(a)) /\ (~IsNaN(b)) /\ a[1] < b[1]
Gt(a, b) == (~IsNaN(a)) /\ (~IsNaN(b)) /\ a[1] > b[1]

\* ---------------------------------------------------------------- sidebar
Intervals == {"1d", "4h", "1h", "15m", "1w"}

IntervalMinutes(iv) ==
    CASE iv = "1d"  -> Day
      [] iv = "4h"  -> 4 * 60
      [] iv = "1h"  -> 60
      [] iv = "15m" -> 15
      [] iv = "1w"  -> Week

\* st.sidebar.slider(label, min, max, default): the positions a slider takes.
BuySlider  == 20..60
SellSlider == 50..90

\* The settings tried in a run of the whole script:
\* [daily buy, daily sell, weekly buy, weekly sell].
SidebarSettings ==
    { <<50, 65, 50, 55>>,      \* every slider at its default
      <<60, 50, 60, 50>>,      \* both pairs inverted
      <<60, 65, 60, 55>>,      \* daily in order, weekly buy above sell
      <<50, 50, 50, 50>> }     \* both pairs equal

Init ==
    /\ pc = "sidebar"
    /\ interval = ""
    /\ buy_rsi_daily = 0 /\ sell_rsi_daily = 0
    /\ buy_rsi_weekly = 0 /\ sell_rsi_weekly = 0
    /\ df = <<>> /\ df_ta = <<>> /\ daily_sig = <<>>
    /\ weekly = <<>> /\ weekly_ta = <<>> /\ weekly_signal = <<>>
    /\ weekly_sig = <<>> /\ trade_signal = <<>>

Sidebar ==
    /\ pc = "sidebar"
    /\ \E iv \in Intervals, s \in SidebarSettings :
         /\ s[1] \in BuySlider /\ s[2] \in SellSlider
         /\ s[3] \in BuySlider /\ s[4] \in SellSlider
         /\ interval' = iv
         /\ buy_rsi_daily' = s[1]
         /\ sell_rsi_daily' = s[2]
         /\ buy_rsi_weekly' = s[3]
         /\ sell_rsi_weekly' = s[4]
    /\ pc' = "load"
    /\ UNCHANGED <<df, df_ta, daily_sig, weekly, weekly_ta, weekly_signal,
                   weekly_sig, trade_signal>>

\* -------------------------------------------------------------- load_data
\* Klines open on the multiples of the interval (a 1w kline on a Monday).
\* The first one returned opens on the last such boundary up to the Sunday
\* 00:00 of week 0.
FirstOpen(iv) == ((6 * Day) \div IntervalMinutes(iv)) * IntervalMinutes(iv)

\* From one kline to the next: the same open time again, the next interval,
\* or a hole of two weeks in the history.
OpenSteps(iv) == {0, IntervalMinutes(iv), 2 * Week}

RECURSIVE OpenTimes(_, _)
OpenTimes(first, steps) ==
    IF steps = <<>> THEN <<first>>
    ELSE <<first>> \o OpenTimes(first + Head(steps), Tail(steps))

\* One row of df: the float columns of the kline opening at t, the i-th
\* returned.  The prices differ from row to row and within a row.
Kline(t, i) ==
    [timestamp |-> t,
     open   |-> F(10 * i),
     high   |-> F(10 * i + 2),
     low    |-> F(10 * i - 1),
     close  |-> F(10 * i + 1),
     volume |-> F(1)]

LoadedFrames(iv) ==
    { [i \in 1..(Len(steps) + 1) |-> Kline(OpenTimes(FirstOpen(iv), steps)[i], i)] :
        steps \in UNION { [1..n -> OpenSteps(iv)] : n \in 0..(MaxBars - 1) } }

LoadData ==
    /\ pc = "load"
    /\ df' \in LoadedFrames(interval)
    /\ pc' = "indicators"
    /\ UNCHANGED <<interval, buy_rsi_daily, sell_rsi_daily, buy_rsi_weekly,
                   sell_rsi_weekly, df_ta, daily_sig, weekly, weekly_ta,
                   weekly_signal, weekly_sig, trade_signal>>

\* ------------------------------------------------------ RSI, MACD columns
\* What RSIIndicator(...).rsi(), MACD(...).macd() and .macd_signal() give
\* for one row: nothing defined yet, the signal line not defined yet, or an
\* RSI of 58 with the MACD above or below its signal line.
IndicatorRows ==
    { [rsi |-> NaN,   macd |-> NaN,   macd_signal |-> NaN],
      [rsi |-> F(58), macd |-> F(1),  macd_signal |-> NaN],
      [rsi |-> F(58), macd |-> F(1),  macd_signal |-> F(0)],
      [rsi |-> F(58), macd |-> F(-1), macd_signal |-> F(0)] }

DailyIndicators ==
    /\ pc = "indicators"
    /\ df_ta' \in [1..Len(df) -> IndicatorRows]
    /\ pc' = "daily_sig"
    /\ UNCHANGED <<interval, buy_rsi_daily, sell_rsi_daily, buy_rsi_weekly,
                   sell_rsi_weekly, df, daily_sig, weekly, weekly_ta,
                   weekly_signal, weekly_sig, trade_signal>>

\* ---------------------------------------------------------- classification
\* The buy mask written with negated comparisons, which are true on NaN.
BuyMaskNegated(ta, buy) ==
    LET Ge(a, b) == (~IsNaN(a)) /\ (~IsNaN(b)) /\ a[1] >= b[1]
        Le(a, b) == (~IsNaN(a)) /\ (~IsNaN(b)) /\ a[1] <= b[1]
    IN  [i \in 1..Len(ta) |->
            (~Ge(ta[i].rsi, F(buy))) /\ (~Le(ta[i].macd, ta[i].macd_signal))]

\* (ta["rsi"] < buy) & (ta["macd"] > ta["macd_signal"])
BuyMask(ta, buy) ==
    [i \in 1..Len(ta) |-> Lt(ta[i].rsi, F(buy)) /\ Gt(ta[i].macd, ta[i].macd_signal)]

\* The sell mask without its MACD condition.
SellMaskRsiOnly(ta, sell) ==
    [i \in 1..Len(ta) |-> Gt(ta[i].rsi, F(sell))]

\* (ta["rsi"] > sell) & (ta["macd"] < ta["macd_signal"])
SellMask(ta, sell) ==
    [i \in 1..Len(ta) |-> Gt(ta[i].rsi, F(sell)) /\ Lt(ta[i].macd, ta[i].macd_signal)]

\* frame.loc[mask, column] = value
LocAssign(column, mask, value) ==
    [i \in 1..Len(column) |-> IF mask[i] THEN value ELSE column[i]]

\* column = "" ; .loc[buy mask] = "BUY" ; .loc[sell mask] = "SELL", in order.
Classify(ta, buy, sell) ==
    LocAssign(LocAssign([i \in 1..Len(ta) |-> ""], BuyMask(ta, buy), "BUY"),
              SellMask(ta, sell), "SELL")

DailySignals ==
    /\ pc = "daily_sig"
    /\ daily_sig' = Classify(df_ta, buy_rsi_daily, sell_rsi_daily)
    /\ pc' = "resample"
    /\ UNCHANGED <<interval, buy_rsi_daily, sell_rsi_daily, buy_rsi_weekly,
                   sell_rsi_weekly, df, df_ta, weekly, weekly_ta,
                   weekly_signal, weekly_sig, trade_signal>>

\* --------------------------------------------------------- df.resample("W")
\* "W" is W-SUN, closed and labelled on the right: a timestamp falls in the
\* bin labelled with the Sunday 00:00 of its own calendar week, the whole of
\* that Sunday included (pandas moves a weekly bin's right edge to the last
\* moment of its day).
WeekLabel(t) == ((t \div Day) + (6 - ((t \div Day) % 7))) * Day

SetMin(S) == CHOOSE x \in S : \A y \in S : x <= y
SetMax(S) == CHOOSE x \in S : \A y \in S : x >= y

RECURSIVE SeqSum(_)
SeqSum(xs) == IF xs = <<>> THEN 0 ELSE Head(xs)[1] + SeqSum(Tail(xs))

\* The rows of frame that fall in the bin labelled label, in index order.
Bucket(frame, label) ==
    SelectSeq(frame, LAMBDA r : WeekLabel(r.timestamp) = label)

\* .agg({"open":"first","high":"max","low":"min","close":"last","volume":"sum"})
\* over one bin; over an empty bin first/max/min/last are NaN and sum is 0.
Aggregate(rows, label) ==
    [timestamp |-> label,
     open   |-> IF rows = <<>> THEN NaN ELSE rows[1].open,
     high   |-> IF rows = <<>> THEN NaN
                ELSE F(SetMax({rows[i].high[1] : i \in 1..Len(rows)})),
     low    |-> IF rows = <<>> THEN NaN
                ELSE F(SetMin({rows[i].low[1] : i \in 1..Len(rows)})),
     close  |-> IF rows = <<>> THEN NaN ELSE rows[Len(rows)].close,
     volume |-> F(SeqSum([i \in 1..Len(rows) |-> rows[i].volume]))]

\* One row per weekly bin from the bin of the first timestamp to the bin of
\* the last one.
ResampleW(frame) ==
    LET stamps == {frame[i].timestamp : i \in 1..Len(frame)}
        first  == WeekLabel(SetMin(stamps))
        last   == WeekLabel(SetMax(stamps))
    IN  [k \in 1..(((last - first) \div Week) + 1) |->
            Aggregate(Bucket(frame, first + (k - 1) * Week), first + (k - 1) * Week)]

Resample ==
    /\ pc = "resample"
    /\ weekly' = ResampleW(df)
    /\ pc' = "weekly_indicators"
    /\ UNCHANGED <<interval, buy_rsi_daily, sell_rsi_daily, buy_rsi_weekly,
                   sell_rsi_weekly, df, df_ta, daily_sig, weekly_ta,
                   weekly_signal, weekly_sig, trade_signal>>

WeeklyIndicators ==
    /\ pc = "weekly_indicators"
    /\ weekly_ta' \in [1..Len(weekly) -> IndicatorRows]
    /\ pc' = "weekly_signal"
    /\ UNCHANGED <<interval, buy_rsi_daily, sell_rsi_daily, buy_rsi_weekly,
                   sell_rsi_weekly, df, df_ta, daily_sig, weekly,
                   weekly_signal, weekly_sig, trade_signal>>

WeeklySignals ==
    /\ pc = "weekly_signal"
    /\ weekly_signal' = Classify(weekly_ta, buy_rsi_weekly, sell_rsi_weekly)
    /\ pc' = "align"
    /\ UNCHANGED <<interval, buy_rsi_daily, sell_rsi_daily, buy_rsi_weekly,
                   sell_rsi_weekly, df, df_ta, daily_sig, weekly, weekly_ta,
                   weekly_sig, trade_signal>>

\* ------------------------------------- .reindex(df.index, method="ffill")
\* The value at the last position of the (ascending) index that is <= t,
\* found by walking the index; NaN when t is before the whole index.
RECURSIVE Pad(_, _, _, _)
Pad(index, values, t, seen) ==
    IF index = <<>> \/ ~(Head(index) <= t) THEN seen
    ELSE Pad(Tail(index), Tail(values), t, F(Head(values)))

\* The reindex done with method="bfill": the first position that is >= t.
ReindexBackfill(index, values, target) ==
    [i \in 1..Len(target) |->
        LET later == {j \in 1..Len(index) : index[j] >= target[i]}
        IN  IF later = {} THEN NaN ELSE F(values[SetMin(later)])]

Reindex(index, values, target) ==
    [i \in 1..Len(target) |-> Pad(index, values, target[i], NaN)]

\* .fillna(value)
Fillna(column, value) ==
    [i \in 1..Len(column) |-> IF IsNaN(column[i]) THEN value ELSE column[i][1]]

Timestamps(frame) == [i \in 1..Len(frame) |-> frame[i].timestamp]

ForwardFill ==
    /\ pc = "align"
    /\ weekly_sig' = Fillna(Reindex(Timestamps(weekly), weekly_signal,
                                    Timestamps(df)), "")
    /\ pc' = "fuse"
    /\ UNCHANGED <<interval, buy_rsi_daily, sell_rsi_daily, buy_rsi_weekly,
                   sell_rsi_weekly, df, df_ta, daily_sig, weekly, weekly_ta,
                   weekly_signal, trade_signal>>

\* ------------------------------------------------------ hybrid trade signal
\* The loop body without the weekly veto on a daily BUY.
FuseNoVeto(daily, weeklyAligned) ==
    IF daily = "BUY" THEN "BUY"
    ELSE IF weeklyAligned = "SELL" THEN "SELL"
    ELSE ""

\* The loop body with a daily SELL passed through.
FuseDailySell(daily, weeklyAligned) ==
    IF daily = "BUY" /\ weeklyAligned # "SELL" THEN "BUY"
    ELSE IF weeklyAligned = "SELL" \/ daily = "SELL" THEN "SELL"
    ELSE ""

\* One pass of the loop body over a row.
Fuse(daily, weeklyAligned) ==
    IF daily = "BUY" /\ weeklyAligned # "SELL" THEN "BUY"
    ELSE IF weeklyAligned = "SELL" THEN "SELL"
    ELSE ""

HybridSignal ==
    /\ pc = "fuse"
    /\ trade_signal' = [i \in 1..Len(df) |-> Fuse(daily_sig[i], weekly_sig[i])]
    /\ pc' = "display"
    /\ UNCHANGED <<interval, buy_rsi_daily, sell_rsi_daily, buy_rsi_weekly,
                   sell_rsi_weekly, df, df_ta, daily_sig, weekly, weekly_ta,
                   weekly_signal, weekly_sig>>

Next ==
    \/ Sidebar
    \/ LoadData
    \/ DailyIndicators
    \/ DailySignals
    \/ Resample
    \/ WeeklyIndicators
    \/ WeeklySignals
    \/ ForwardFill
    \/ HybridSignal

Spec == Init /\ [][Next]_vars
\* --------------------------------------- the classifier on single-row frames
\* The two classification blocks applied to every slider position and to
\* indicator rows on and around every threshold.
RsiValues == {NaN} \cup {F(5 * k) : k \in 0..20}
MacdValues == {NaN, F(-1), F(0), F(1)}
SignalValues == {NaN, F(0)}

ClassifierRows ==
    [rsi : RsiValues, macd : MacdValues, macd_signal : SignalValues]

InitClassify ==
    /\ interval = "1d"
    /\ df = <<Kline(FirstOpen("1d"), 1)>>
    /\ buy_rsi_daily \in BuySlider /\ sell_rsi_daily \in SellSlider
    /\ buy_rsi_weekly = buy_rsi_daily /\ sell_rsi_weekly = sell_rsi_daily
    /\ \E row \in ClassifierRows :
         \/ /\ pc = "daily_sig"
            /\ df_ta = <<row>>
            /\ weekly = <<>> /\ weekly_ta = <<>>
         \/ /\ pc = "weekly_signal"
            /\ df_ta = <<[rsi |-> NaN, macd |-> NaN, macd_signal |-> NaN]>>
            /\ weekly = ResampleW(df) /\ weekly_ta = <<row>>
    /\ daily_sig = (IF pc = "daily_sig" THEN <<>> ELSE <<"">>)
    /\ weekly_signal = <<>> /\ weekly_sig = <<>> /\ trade_signal = <<>>

NextClassify == DailySignals \/ WeeklySignals

SpecClassify == InitClassify /\ [][NextClassify]_vars

\* ------------------------------------------------------------------ claims
Bars == 1..Len(df)
WeeklyRows == 1..Len(weekly)
Fused == pc = "display"
Aligned == pc \in {"fuse", "display"}

\* The candles of df aggregated into weekly row j.
Constituents(j) ==
    {c \in Bars : WeekLabel(df[c].timestamp) = weekly[j].timestamp}

\* The weekly rows stamped at or before t, and the latest of them.
RowsUpTo(t) == {j \in WeeklyRows : weekly[j].timestamp <= t}
LatestRowUpTo(t) ==
    CHOOSE j \in RowsUpTo(t) :
        \A k \in RowsUpTo(t) : weekly[k].timestamp <= weekly[j].timestamp

\* C1: at every bar whose aligned weekly signal is SELL the hybrid signal is
\* SELL, whatever the daily signal is.
C1_WeeklySellOverrides ==
    Fused => \A i \in Bars :
        weekly_sig[i] = "SELL" => trade_signal[i] = "SELL"

C1_Witness ==
    /\ Fused
    /\ \E i \in Bars :
         weekly_sig[i] = "SELL" /\ daily_sig[i] = "BUY" /\ trade_signal[i] = "SELL"

\* C2: where the aligned weekly signal is not SELL the hybrid signal is BUY
\* on a daily BUY and empty otherwise; the hybrid signal is SELL exactly
\* where the aligned weekly signal is SELL.
C2_DailyBuyElseNone ==
    Fused => \A i \in Bars :
        /\ weekly_sig[i] # "SELL" =>
             trade_signal[i] = (IF daily_sig[i] = "BUY" THEN "BUY" ELSE "")
        /\ trade_signal[i] = "SELL" <=> weekly_sig[i] = "SELL"

C2_Witness ==
    /\ Fused
    /\ \E i \in Bars :
         daily_sig[i] = "SELL" /\ weekly_sig[i] = "BUY" /\ trade_signal[i] = ""
    /\ \E i \in Bars :
         daily_sig[i] = "BUY" /\ weekly_sig[i] = "" /\ trade_signal[i] = "BUY"

\* C3 (as claimed): the weekly row whose signal is forward-filled onto a bar
\* aggregates no candle later than that bar.
C3_NoLookAhead ==
    Aligned => \A i \in Bars :
        RowsUpTo(df[i].timestamp) # {} =>
            \A c \in Constituents(LatestRowUpTo(df[i].timestamp)) :
                df[c].timestamp <= df[i].timestamp

\* C4 (as claimed): no weekly row is stamped earlier than a candle
\* aggregated into it.
C4_LabelIsBucketClose ==
    \A j \in WeeklyRows : \A c \in Constituents(j) :
        df[c].timestamp <= weekly[j].timestamp

\* C5 (as claimed): every weekly row aggregates at least one candle, and
\* none has an undefined price or a volume of zero.
C5_NoEmptyBuckets ==
    \A j \in WeeklyRows :
        /\ Constituents(j) # {}
        /\ ~IsNaN(weekly[j].open) /\ ~IsNaN(weekly[j].high)
        /\ ~IsNaN(weekly[j].low) /\ ~IsNaN(weekly[j].close)
        /\ weekly[j].volume # F(0)

\* C6: each classified row carries exactly the label of the first matching
\* rule: BUY if rsi < buy and macd > signal, else SELL if rsi > sell and
\* macd < signal, else the empty label; for every slider position.
Defined(row) == ~IsNaN(row.rsi) /\ ~IsNaN(row.macd) /\ ~IsNaN(row.macd_signal)
BuyRule(row, buy) ==
    Defined(row) /\ row.rsi[1] < buy /\ row.macd[1] > row.macd_signal[1]
SellRule(row, sell) ==
    Defined(row) /\ row.rsi[1] > sell /\ row.macd[1] < row.macd_signal[1]
FirstMatch(row, buy, sell) ==
    IF BuyRule(row, buy) THEN "BUY"
    ELSE IF SellRule(row, sell) THEN "SELL"
    ELSE ""

C6_BuyCheckedFirst ==
    /\ Len(daily_sig) = Len(df_ta) =>
         \A i \in 1..Len(df_ta) :
            daily_sig[i] = FirstMatch(df_ta[i], buy_rsi_daily, sell_rsi_daily)
    /\ Len(weekly_signal) = Len(weekly_ta) =>
         \A j \in 1..Len(weekly_ta) :
            weekly_signal[j] = FirstMatch(weekly_ta[j], buy_rsi_weekly, sell_rsi_weekly)

C6_Witness ==
    \/ /\ buy_rsi_daily >= sell_rsi_daily
       /\ \E i \in 1..Len(daily_sig) :
            /\ BuyRule(df_ta[i], buy_rsi_daily)
            /\ df_ta[i].rsi[1] > sell_rsi_daily
            /\ daily_sig[i] = "BUY"
    \/ /\ buy_rsi_weekly >= sell_rsi_weekly
       /\ \E j \in 1..Len(weekly_signal) :
            /\ BuyRule(weekly_ta[j], buy_rsi_weekly)
            /\ weekly_ta[j].rsi[1] > sell_rsi_weekly
            /\ weekly_signal[j] = "BUY"

\* C7: a row with an undefined rsi, macd or macd_signal gets the empty
\* label in both classifiers, and a run in which no indicator is defined
\* ends with one empty hybrid signal per loaded bar.
AllUndefined(ta) ==
    \A i \in 1..Len(ta) :
        IsNaN(ta[i].rsi) /\ IsNaN(ta[i].macd) /\ IsNaN(ta[i].macd_signal)

C7_UndefinedIsNone ==
    /\ Len(daily_sig) = Len(df_ta) =>
         \A i \in 1..Len(df_ta) : ~Defined(df_ta[i]) => daily_sig[i] = ""
    /\ Len(weekly_signal) = Len(weekly_ta) =>
         \A j \in 1..Len(weekly_ta) : ~Defined(weekly_ta[j]) => weekly_signal[j] = ""
    /\ (Fused /\ AllUndefined(df_ta) /\ AllUndefined(weekly_ta)) =>
         /\ Len(trade_signal) = Len(df)
         /\ \A i \in Bars : trade_signal[i] = ""

C7_Witness ==
    /\ Fused
    /\ Len(df) = 1
    /\ AllUndefined(df_ta) /\ AllUndefined(weekly_ta)
    /\ trade_signal = <<"">>

\* C8 (as claimed): no indicator or signal is computed for a loaded series
\* whose timestamps are not strictly increasing.
C8_ValidationBeforeIndicators ==
    (\E i \in 1..(Len(df) - 1) : df[i + 1].timestamp <= df[i].timestamp) =>
        /\ df_ta = <<>> /\ daily_sig = <<>>
        /\ weekly_signal = <<>> /\ trade_signal = <<>>

\* C9 (as claimed): every threshold pair the sidebar hands to the script
\* has buy < sell, both within [0, 100].
C9_ThresholdsOrdered ==
    pc # "sidebar" =>
        /\ buy_rsi_daily < sell_rsi_daily
        /\ buy_rsi_weekly < sell_rsi_weekly
        /\ {buy_rsi_daily, sell_rsi_daily, buy_rsi_weekly, sell_rsi_weekly}
              \subseteq 0..100

\* C10: the aligned weekly signal has one value per loaded bar; it is the
\* signal of the latest weekly row stamped at or before the bar, and the
\* empty label when no weekly row is.
C10_ForwardFill ==
    Aligned =>
        /\ Len(weekly_sig) = Len(df)
        /\ \A i \in Bars :
             weekly_sig[i] =
                (IF RowsUpTo(df[i].timestamp) = {} THEN ""
                 ELSE weekly_signal[LatestRowUpTo(df[i].timestamp)])

C10_Witness ==
    /\ Aligned
    /\ \E i \in Bars :
         RowsUpTo(df[i].timestamp) = {} /\ weekly_sig[i] = ""
    /\ \E i \in Bars :
         /\ RowsUpTo(df[i].timestamp) # {}
         /\ Cardinality(RowsUpTo(df[i].timestamp)) < Len(weekly)
         /\ weekly_sig[i] = "SELL"
====
